---- MODULE Spec2Model ----
(***************************************************************************)
(* MedChain Admin (src/app.py): a Streamlit script that is re-run from top *)
(* to bottom on every user interaction.  One action of this model is one   *)
(* script run: the health probe, the cached load of the record table, and  *)
(* the handler of the button that was pressed in that run.                 *)
(*                                                                         *)
(* The remote API is an external collaborator.  It is modelled as a store  *)
(* of records that assigns `id` and `createdAt` on create, answers 404 for *)
(* an unknown id, and may fail any call (timeout, 5xx).                    *)
(*                                                                         *)
(* The search box is left at its default (q = ""), so `view` is df.copy()  *)
(* plus the `_delete` helper column.                                       *)
(***************************************************************************)
EXTENDS Integers, Sequences, FiniteSets, TLC

VARIABLES
    server,       \* the remote record collection, in creation order
    created,      \* how many ids the server has assigned so far
    cache,        \* st.cache_data entry of load_df_cache: [valid, df]
    refresh_key,  \* st.session_state.refresh_key: the time.time() of the
                  \* session's first run ("start") or of a later Refresh ("reset")
    online,       \* what the header's status badge shows (api_ok())
    df,           \* the table loaded by this run (line 137)
    crashed,      \* the run ended in an uncaught exception
    last,         \* which button this run handled
    show_raw,     \* the "Show raw JSON" toggle as read by this run
    edited,       \* what st.data_editor returned to this run
    order,        \* iteration order of `common` in Save edits
    form,         \* the Add Record inputs read by this run
    csv_df,       \* the parsed upload read by this run
    calls,        \* the create/update/delete calls this run issued, in order
    msg           \* the st.success / st.error this run's handler rendered

vars == <<server, created, cache, refresh_key, online, df, crashed, last,
          show_raw, edited, order, form, csv_df, calls, msg>>

----------------------------------------------------------------------------
(* Bounds of the model *)

MaxCreates == 2    \* ids the server hands out in one behaviour
MaxRecords == 2    \* records the server holds at once
MaxCsvRows == 2    \* rows of an uploaded CSV

----------------------------------------------------------------------------
(* Values *)

NA == "<NA>"                      \* a missing cell: None / NaN
IdSeq == <<"r1", "r2", "r3", "r4", "r5", "r6">>
DateSeq == <<"t1", "t2", "t3", "t4", "t5", "t6">>
Names == {"a", "b"}               \* the texts a record's name can hold
Vals == {"b"}                     \* the text the operator types into a grid cell
EmptyDict == [x \in {} |-> NA]

Put(d, k, v) == [x \in DOMAIN d \cup {k} |-> IF x = k THEN v ELSE d[x]]
Pop(d, k) == [x \in DOMAIN d \ {k} |-> d[x]]
Restrict(d, S) == [x \in S |-> d[x]]

EmptyFrame == [cols |-> {}, rows |-> <<>>]

RECURSIVE UnionKeys(_)
UnionKeys(recs) ==
    IF recs = <<>> THEN {} ELSE DOMAIN Head(recs) \cup UnionKeys(Tail(recs))

\* pd.DataFrame(list of dicts): the columns are the union of the keys and a
\* key a record lacks is a missing cell.
DataFrame(recs) ==
    LET cols == UnionKeys(recs) IN
    [cols |-> cols,
     rows |-> [i \in 1..Len(recs) |->
                 [c \in cols |-> IF c \in DOMAIN recs[i] THEN recs[i][c] ELSE NA]]]

\* pd.to_datetime(ms, unit="ms", errors="coerce")
ToDatetime(ms) == IF ms \in 1..Len(DateSeq) THEN DateSeq[ms] ELSE NA

\* str(x) / .astype(str) on an id cell
Str(x) == IF x = NA THEN "None" ELSE x

\* str.strip() on the texts the form can hold
Strip(s) ==
    CASE s = " " -> ""
      [] s = " a " -> "a"
      [] s = " age " -> "age"
      [] OTHER -> s

----------------------------------------------------------------------------
(* The remote API *)

ServerIds(srv) == {srv[i]["id"] : i \in 1..Len(srv)}

\* What the store keeps of a JSON body: the model tracks the `name` field
\* when it holds one of the texts of Names.
StoredName(body) ==
    IF "name" \in DOMAIN body /\ body["name"] \in Names
    THEN [name |-> body["name"]]
    ELSE EmptyDict

R(k) == [id |-> IdSeq[k], createdAt |-> k, name |-> IF k % 2 = 1 THEN "a" ELSE "b"]

\* The collections the operator may find on the server when the session
\* starts: records r1, r2, ... created earlier, up to what the store holds.
InitialStores == {[i \in 1..k |-> R(i)] : k \in 0..MaxRecords}

Merge(a, b) == [x \in DOMAIN a \cup DOMAIN b |-> IF x \in DOMAIN b THEN b[x] ELSE a[x]]

RemoveId(srv, id) == SelectSeq(srv, LAMBDA r : r["id"] # id)

\* One HTTP call against the store: [server, created, ok].  `down` is a
\* transport failure or non-2xx answer that raise_for_status() turns into an
\* exception; an unknown id is a 404.
ApiCall(srv, n, call, down) ==
    CASE call.op = "create" ->
           IF down \/ n >= MaxCreates \/ Len(srv) >= MaxRecords
           THEN [server |-> srv, created |-> n, ok |-> FALSE]
           ELSE [server |-> Append(srv, Merge([id |-> IdSeq[n + 1], createdAt |-> n + 1],
                                               StoredName(call.payload))),
                 created |-> n + 1, ok |-> TRUE]
      [] call.op = "update" ->
           IF down \/ call.id \notin ServerIds(srv)
           THEN [server |-> srv, created |-> n, ok |-> FALSE]
           ELSE [server |-> [i \in 1..Len(srv) |->
                               IF srv[i]["id"] = call.id
                               THEN Merge(srv[i], StoredName(call.payload))
                               ELSE srv[i]],
                 created |-> n, ok |-> TRUE]
      [] call.op = "delete" ->
           IF down \/ call.id \notin ServerIds(srv)
           THEN [server |-> srv, created |-> n, ok |-> FALSE]
           ELSE [server |-> RemoveId(srv, call.id), created |-> n, ok |-> TRUE]

----------------------------------------------------------------------------
(* Load data (lines 124-137) *)

\* api_list() then the createdAt normalisation of load_df_cache
load_df_cache(srv) ==
    LET df0 == DataFrame(srv) IN
    IF "createdAt" \in df0.cols
    THEN [df0 EXCEPT !.rows = [i \in 1..Len(df0.rows) |->
             [df0.rows[i] EXCEPT !["createdAt"] = ToDatetime(df0.rows[i]["createdAt"])]]]
    ELSE df0

\* The parameter is named _ts, so st.cache_data leaves it out of the cache
\* key: a valid entry is returned whatever refresh_key holds.
Loaded == IF cache.valid THEN cache.df ELSE load_df_cache(server)

----------------------------------------------------------------------------
(* Records table (lines 170-191) *)

\* view = df.copy(); the helper column is added unless the view is empty
View(d) ==
    IF d.rows # <<>> /\ "_delete" \notin d.cols
    THEN [cols |-> d.cols \cup {"_delete"},
          rows |-> [i \in 1..Len(d.rows) |-> Put(d.rows[i], "_delete", FALSE)]]
    ELSE d

\* the frame handed to st.data_editor
EditorData(d, raw) == IF raw THEN d ELSE View(d)

\* disabled_cols, or [] in the raw view
Disabled(d, raw) == IF raw THEN {} ELSE View(d).cols \cap {"id", "createdAt"}

FrameIds(d) == IF "id" \in d.cols THEN {d.rows[i]["id"] : i \in 1..Len(d.rows)} ELSE {}

Cell(cols, c, S) == IF c \in cols THEN S ELSE {NA}

\* What the user can turn one row of the grid into.
RowEdits(row, d, raw) ==
    LET off == Disabled(d, raw)
        own(c) == IF c \in d.cols THEN {row[c]} ELSE {NA}
        ids == IF "id" \in off THEN own("id") ELSE Cell(d.cols, "id", own("id") \cup {NA})
        dates == own("createdAt")
        names == Cell(d.cols, "name", own("name") \cup Vals)
        flags == Cell(d.cols, "_delete", BOOLEAN)
    IN {Restrict([id |-> i, createdAt |-> t, name |-> n, _delete |-> f], d.cols) :
            i \in ids, t \in dates, n \in names, f \in flags}

\* A row added in the grid (num_rows="dynamic"): disabled cells stay empty.
AddedRows(d, raw) ==
    LET off == Disabled(d, raw)
        ids == IF "id" \in off THEN {NA} ELSE Cell(d.cols, "id", {NA, d.rows[1]["id"]})
        names == Cell(d.cols, "name", {"a"})
        flags == Cell(d.cols, "_delete", BOOLEAN)
    IN {Restrict([id |-> i, createdAt |-> NA, name |-> n, _delete |-> f], d.cols) :
            i \in ids, n \in names, f \in flags}

RECURSIVE GridEdits(_, _, _)
GridEdits(rows, d, raw) ==
    IF rows = <<>> THEN {<<>>}
    ELSE LET rest == GridEdits(Tail(rows), d, raw) IN
         rest \cup {<<e>> \o t : e \in RowEdits(Head(rows), d, raw), t \in rest}

\* Every frame st.data_editor can return for the table of this run: rows
\* edited or removed, and at most one row appended.
EditedFrames(d, raw) ==
    LET data == EditorData(d, raw) IN
    IF data.cols = {} THEN {data}
    ELSE {[cols |-> data.cols, rows |-> g \o a] :
             g \in GridEdits(data.rows, data, raw),
             a \in {<<>>} \cup {<<r>> : r \in AddedRows(data, raw)}}

----------------------------------------------------------------------------
(* Save edits (lines 194-211) *)

\* What a handler's loop carries: the store, the calls issued so far with
\* their outcome, the success counter, and whether a call has raised.
Start(srv, n) == [server |-> srv, created |-> n, log |-> <<>>, count |-> 0, raised |-> FALSE]

\* Issue `call`; the k-th call of the run meets a transport failure when k
\* is in `fails`.
Issue(st, call, fails) ==
    LET r == ApiCall(st.server, st.created, call, (Len(st.log) + 1) \in fails) IN
    [server |-> r.server, created |-> r.created,
     log |-> Append(st.log, [op |-> call.op, id |-> call.id, payload |-> call.payload,
                             ok |-> r.ok]),
     count |-> IF r.ok THEN st.count + 1 ELSE st.count,
     raised |-> ~r.ok]

Obj == "<obj>"   \* a nested {index: value} dict, as a JSON value

\* frame.set_index("id").loc[rid].to_dict(): the row's cells without the id;
\* when several rows carry rid, .loc gives a frame and to_dict() maps every
\* column to a nested dict.
Loc(d, rid) ==
    LET hits == {i \in 1..Len(d.rows) : d.rows[i]["id"] = rid}
        other == d.cols \ {"id"}
    IN IF Cardinality(hits) = 1
       THEN [nested |-> FALSE, dict |-> Restrict(d.rows[CHOOSE i \in hits : TRUE], other)]
       ELSE [nested |-> TRUE, dict |-> [c \in other |-> Obj]]

\* before != after
Differs(before, after) == before.nested \/ after.nested \/ before.dict # after.dict

\* UpdatePayload without line 205: the helper flag stays in the body.
UpdatePayloadKeepsFlag(after) == Pop(after, "createdAt")

\* lines 205-206: what is popped from `after` before it is sent
UpdatePayload(after) == Pop(Pop(after, "_delete"), "createdAt")

\* lines 201-208, over `common` in the order the list gives
RECURSIVE SaveLoop(_, _, _, _, _)
SaveLoop(st, base, new, common, fails) ==
    IF common = <<>> \/ st.raised THEN st
    ELSE LET rid == Head(common)
             before == Loc(base, rid)
             after == Loc(new, rid)
         IN IF Differs(before, after)
            THEN SaveLoop(Issue(st, [op |-> "update", id |-> Str(rid),
                                     payload |-> UpdatePayload(after.dict)], fails),
                          base, new, Tail(common), fails)
            ELSE SaveLoop(st, base, new, Tail(common), fails)

\* common = list(set(base.index).intersection(set(new.index)))
Common(base, new) == FrameIds(base) \cap FrameIds(new)

\* The orders in which list(set(...)) can yield the elements of S: the
\* iteration order of a set of strings follows their hashes, not the rows.
ListOfSet(S) ==
    {f \in [1..Cardinality(S) -> S] : \A i, j \in 1..Cardinality(S) : i # j => f[i] # f[j]}

\* The handler: the loop runs only when the table has an id column.
SaveEditsResult(srv, n, d, raw, ed, ord, fails) ==
    IF "id" \in EditorData(d, raw).cols
    THEN SaveLoop(Start(srv, n), EditorData(d, raw), ed, ord, fails)
    ELSE Start(srv, n)

----------------------------------------------------------------------------
(* Delete selected (lines 213-223) *)

\* edited[edited["_delete"] == True]
Flagged(ed) ==
    IF "_delete" \in ed.cols THEN SelectSeq(ed.rows, LAMBDA r : r["_delete"] = TRUE) ELSE <<>>

\* ...["id"].astype(str).tolist()
Selected(ed) == [i \in 1..Len(Flagged(ed)) |-> Str(Flagged(ed)[i]["id"])]

RECURSIVE DeleteLoop(_, _, _)
DeleteLoop(st, rids, fails) ==
    IF rids = <<>> \/ st.raised THEN st
    ELSE DeleteLoop(Issue(st, [op |-> "delete", id |-> Head(rids), payload |-> EmptyDict],
                          fails),
                    Tail(rids), fails)

DeleteSelectedResult(srv, n, ed, fails) ==
    IF "_delete" \in ed.cols /\ "id" \in ed.cols
    THEN DeleteLoop(Start(srv, n), Selected(ed), fails)
    ELSE Start(srv, n)

----------------------------------------------------------------------------
(* Add Record (lines 235-258) *)

\* The texts the operator can leave in the six inputs.
Forms ==
    [name : {"", " ", " a "}, note : {"", "x"},
     k1 : {"", " age "}, v1 : {"", "b"},
     k2 : {"", "city"}, v2 : {"", "b"}]

NoForm == [name |-> "", note |-> "", k1 |-> "", v1 |-> "", k2 |-> "", v2 |-> ""]

\* lines 248-252, one assignment after the other
AddPayload(f) ==
    LET p1 == IF Strip(f.name) # "" THEN Put(EmptyDict, "name", Strip(f.name)) ELSE EmptyDict
        p2 == IF Strip(f.note) # "" THEN Put(p1, "note", Strip(f.note)) ELSE p1
        p3 == IF Strip(f.k1) # "" THEN Put(p2, Strip(f.k1), f.v1) ELSE p2
        p4 == IF Strip(f.k2) # "" THEN Put(p3, Strip(f.k2), f.v2) ELSE p3
    IN p4

AddRecordResult(srv, n, f, fails) ==
    Issue(Start(srv, n), [op |-> "create", id |-> NA, payload |-> AddPayload(f)], fails)

----------------------------------------------------------------------------
(* Upload CSV (lines 261-280) *)

CsvCols == {"id", "createdAt", "name"}

CsvRows(cols) ==
    {Restrict([id |-> i, createdAt |-> "t1", name |-> "a"], cols) :
        i \in Cell(cols, "id", {"r1", NA})}

\* The frames pd.read_csv can give: a header and up to MaxCsvRows rows.
CsvFrames ==
    UNION {{[cols |-> cols, rows |-> rs] :
               rs \in UNION {[1..k -> CsvRows(cols)] : k \in 0..MaxCsvRows}} :
           cols \in SUBSET CsvCols \ {{}}}

NoCsv == EmptyFrame

\* line 271: d = {k: ("" if pd.isna(v) else v) for k, v in row.to_dict().items()}
CsvRowDict(row) == [k \in DOMAIN row |-> IF row[k] = NA THEN "" ELSE row[k]]

\* CsvLoop without the inner try: the first create that raises ends the loop.
RECURSIVE CsvLoopAborts(_, _, _)
CsvLoopAborts(st, rows, fails) ==
    IF rows = <<>> \/ st.raised THEN st
    ELSE CsvLoopAborts(Issue(st, [op |-> "create", id |-> NA,
                                  payload |-> [k \in DOMAIN Head(rows) |->
                                     IF Head(rows)[k] = NA THEN "" ELSE Head(rows)[k]]], fails),
                       Tail(rows), fails)

\* lines 270-276: a create that raises is passed over
RECURSIVE CsvLoop(_, _, _)
CsvLoop(st, rows, fails) ==
    IF rows = <<>> THEN st
    ELSE CsvLoop(Issue(st, [op |-> "create", id |-> NA, payload |-> CsvRowDict(Head(rows))],
                       fails),
                 Tail(rows), fails)

CsvImportResult(srv, n, csv, fails) == CsvLoop(Start(srv, n), csv.rows, fails)

----------------------------------------------------------------------------
(* Script runs *)

NoMsg == [kind |-> "none", what |-> "none", n |-> 0]
Success(what, n) == [kind |-> "success", what |-> what, n |-> n]
Error(what) == [kind |-> "error", what |-> what, n |-> 0]

Init ==
    /\ server \in InitialStores
    /\ created = Len(server)
    /\ cache = [valid |-> FALSE, df |-> EmptyFrame]
    /\ refresh_key = "start"
    /\ online = TRUE
    /\ df = EmptyFrame
    /\ crashed = FALSE
    /\ last = "init"
    /\ show_raw = FALSE
    /\ edited = EmptyFrame
    /\ order = <<>>
    /\ form = NoForm
    /\ csv_df = NoCsv
    /\ calls = <<>>
    /\ msg = NoMsg

\* The top of every run that gets past line 137: the status badge from
\* api_ok(), which swallows its own failure, and the table from the cache or
\* from a list call that succeeded.
Top(h) ==
    /\ online' = h
    /\ df' = Loaded
    /\ crashed' = FALSE

Kept == [valid |-> TRUE, df |-> Loaded]

NoInputs ==
    /\ show_raw' = FALSE
    /\ edited' = EditorData(Loaded, FALSE)
    /\ order' = <<>>
    /\ form' = NoForm
    /\ csv_df' = NoCsv

\* A run with no entry in the cache whose list call raises: load_df_cache is
\* called outside any try, so the exception leaves the script at line 137 and
\* nothing below it is rendered or handled.
ListFails(h) ==
    /\ ~cache.valid
    /\ online' = h
    /\ crashed' = TRUE
    /\ df' = EmptyFrame
    /\ last' = "load"
    /\ show_raw' = FALSE
    /\ edited' = EmptyFrame
    /\ order' = <<>>
    /\ form' = NoForm
    /\ csv_df' = NoCsv
    /\ calls' = <<>>
    /\ msg' = NoMsg
    /\ UNCHANGED <<server, created, cache, refresh_key>>

\* The buttons below line 137 exist once a run has rendered them, and the
\* widgets hold what the operator entered since: a change of a widget is
\* itself a run with no button pressed, so a handler's inputs are drawn when
\* its button is pressed after such a run.  A run with no button pressed
\* leaves the store as it is and the cache entry valid, so a handler meets
\* the same store and table after it as it would right after another handler.
Ready == ~crashed /\ last \in {"load", "refresh"}

\* A run in which no button is pressed (first load, typing, toggling).
Rerun(h) ==
    /\ Top(h)
    /\ cache' = Kept
    /\ last' = "load"
    /\ NoInputs
    /\ calls' = <<>>
    /\ msg' = NoMsg
    /\ UNCHANGED <<server, created, refresh_key>>

\* lines 162-164
Refresh(h) ==
    /\ Ready
    /\ Top(h)
    /\ refresh_key' = "reset"
    /\ cache' = [valid |-> FALSE, df |-> EmptyFrame]
    /\ last' = "refresh"
    /\ NoInputs
    /\ calls' = <<>>
    /\ msg' = NoMsg
    /\ UNCHANGED <<server, created>>

\* lines 194-211
SaveEdits(h, raw, ed, ord, fails) ==
    \E res \in {SaveEditsResult(server, created, Loaded, raw, ed, ord, fails)} :
    /\ Ready
    /\ Top(h)
    /\ cache' = Kept
    /\ last' = "save"
    /\ show_raw' = raw
    /\ edited' = ed
    /\ order' = ord
    /\ form' = NoForm
    /\ csv_df' = NoCsv
    /\ server' = res.server
    /\ created' = res.created
    /\ calls' = res.log
    /\ msg' = IF res.raised THEN Error("Update failed") ELSE Success("Saved", res.count)
    /\ UNCHANGED refresh_key

\* lines 213-223
DeleteSelected(h, raw, ed, fails) ==
    \E res \in {DeleteSelectedResult(server, created, ed, fails)} :
    /\ Ready
    /\ Top(h)
    /\ cache' = Kept
    /\ last' = "delete"
    /\ show_raw' = raw
    /\ edited' = ed
    /\ order' = <<>>
    /\ form' = NoForm
    /\ csv_df' = NoCsv
    /\ server' = res.server
    /\ created' = res.created
    /\ calls' = res.log
    /\ msg' = IF res.raised THEN Error("Delete failed") ELSE Success("Deleted", res.count)
    /\ UNCHANGED refresh_key

\* lines 247-257
AddRecord(h, f, fails) ==
    \E res \in {AddRecordResult(server, created, f, fails)} :
    /\ Ready
    /\ Top(h)
    /\ cache' = Kept
    /\ last' = "add"
    /\ show_raw' = FALSE
    /\ edited' = EditorData(Loaded, FALSE)
    /\ order' = <<>>
    /\ form' = f
    /\ csv_df' = NoCsv
    /\ server' = res.server
    /\ created' = res.created
    /\ calls' = res.log
    /\ msg' = IF res.raised THEN Error("Failed to add") ELSE Success("Record added", 0)
    /\ UNCHANGED refresh_key

\* lines 264-277, the file parsed
CsvImport(h, csv, fails) ==
    \E res \in {CsvImportResult(server, created, csv, fails)} :
    /\ Ready
    /\ Top(h)
    /\ cache' = Kept
    /\ last' = "csv"
    /\ show_raw' = FALSE
    /\ edited' = EditorData(Loaded, FALSE)
    /\ order' = <<>>
    /\ form' = NoForm
    /\ csv_df' = csv
    /\ server' = res.server
    /\ created' = res.created
    /\ calls' = res.log
    /\ msg' = Success("Created", res.count)
    /\ UNCHANGED refresh_key

\* lines 265-266 and 278-279: pd.read_csv raises
CsvUnreadable(h) ==
    /\ Ready
    /\ Top(h)
    /\ cache' = Kept
    /\ last' = "csv_error"
    /\ NoInputs
    /\ calls' = <<>>
    /\ msg' = Error("Could not read CSV")
    /\ UNCHANGED <<server, created, refresh_key>>

\* ttl=15 (line 127): a ttl period passes and the cached table expires.
Tick ==
    /\ cache.valid
    /\ cache' = [valid |-> FALSE, df |-> EmptyFrame]
    /\ UNCHANGED <<server, created, refresh_key, online, df, crashed, last, show_raw,
                   edited, order, form, csv_df, calls, msg>>

\* The inputs of a run: the probe's outcome h, the toggle, the frame the
\* editor returns, the order list(set(...)) yields, the form, the parsed
\* file, and which call of the run meets a failure.
DoListFails == \E h \in BOOLEAN : ListFails(h)

DoRerun == \E h \in BOOLEAN : Rerun(h)

DoRefresh == \E h \in BOOLEAN : Refresh(h)

DoSaveEdits ==
    /\ Ready
    /\ \E h \in BOOLEAN, raw \in BOOLEAN :
         \E ed \in EditedFrames(Loaded, raw) :
           \E ord \in ListOfSet(Common(EditorData(Loaded, raw), ed)) :
             \E k \in 0..Len(ord) : SaveEdits(h, raw, ed, ord, {k})

DoDeleteSelected ==
    /\ Ready
    /\ \E h \in BOOLEAN, raw \in BOOLEAN :
         \E ed \in EditedFrames(Loaded, raw) :
           \E k \in 0..Len(Flagged(ed)) : DeleteSelected(h, raw, ed, {k})

DoAddRecord ==
    /\ Ready
    /\ \E h \in BOOLEAN, f \in Forms, k \in 0..1 : AddRecord(h, f, {k})

DoCsvImport ==
    /\ Ready
    /\ \E h \in BOOLEAN, csv \in CsvFrames :
         \E fails \in SUBSET (1..Len(csv.rows)) : CsvImport(h, csv, fails)

DoCsvUnreadable == \E h \in BOOLEAN : CsvUnreadable(h)

Next ==
    \/ DoListFails
    \/ DoRerun
    \/ DoRefresh
    \/ DoSaveEdits
    \/ DoDeleteSelected
    \/ DoAddRecord
    \/ DoCsvImport
    \/ DoCsvUnreadable
    \/ Tick

Spec == Init /\ [][Next]_vars

\* The Upload CSV workflow alone: page loads, cache expiry, uploads.
NextCsv ==
    \/ DoListFails
    \/ DoRerun
    \/ DoCsvImport
    \/ DoCsvUnreadable
    \/ Tick

SpecCsv == Init /\ [][NextCsv]_vars

\* The Save edits workflow alone: page loads, cache expiry, saves.
NextSave ==
    \/ DoListFails
    \/ DoRerun
    \/ DoSaveEdits
    \/ Tick

SpecSave == Init /\ [][NextSave]_vars

----------------------------------------------------------------------------
(* Properties *)

Calls == 1..Len(calls)
Succeeded == {i \in Calls : calls[i].ok}
UpdatesOf(rid) == {i \in Calls : calls[i].op = "update" /\ calls[i].id = Str(rid)}

\* the frame this run's editor was given, and its rows by id
Base == EditorData(df, show_raw)
Fields(d) == Pop(Pop(d, "_delete"), "createdAt")
Plain(rid) == ~Loc(Base, rid).nested /\ ~Loc(edited, rid).nested

\* the position of the row with this id in the table
RowOf(id) == CHOOSE i \in 1..Len(Base.rows) : Str(Base.rows[i]["id"]) = id

\* C1: Save edits issues no update for a row present before and after
\* editing whose fields, the deletion flag and the reserved fields left out,
\* are unchanged.
C1_NoUpdateForUnchangedFields ==
    last = "save" =>
        \A rid \in Common(Base, edited) :
            (Plain(rid) /\ Fields(Loc(Base, rid).dict) = Fields(Loc(edited, rid).dict))
                => UpdatesOf(rid) = {}

\* C2: CSV import attempts exactly one create per parsed row, in row order,
\* whatever creates fail, and reports the number of creates that succeeded.
C2_CsvAttemptsEveryRow ==
    last = "csv" =>
        /\ Len(calls) = Len(csv_df.rows)
        /\ \A i \in Calls :
              /\ calls[i].op = "create"
              /\ \A c \in csv_df.cols :
                    calls[i].payload[c] = IF csv_df.rows[i][c] = NA THEN "" ELSE csv_df.rows[i][c]
        /\ msg = Success("Created", Cardinality(Succeeded))

\* a two-row import whose first create fails and whose second succeeds
C2_Witness ==
    /\ last = "csv"
    /\ Len(calls) = 2
    /\ ~calls[1].ok
    /\ calls[2].ok
    /\ msg.n = 1

\* C3: after a successful mutation (Add, Save edits, Delete selected, CSV
\* import) and after Refresh the cached table is invalidated, so that the next
\* run lists the records again.
C3_MutationInvalidatesCache ==
    (\/ last = "refresh"
     \/ last \in {"add", "save", "delete", "csv"} /\ msg.kind = "success" /\ Succeeded # {})
        => ~cache.valid

\* C4: no remote-call failure leaves the script run as an uncaught exception.
C4_NoUncaughtFailure == ~crashed

\* C5: a bulk operation attempts the call of every eligible row, whatever
\* calls fail, and ends by reporting the number of calls that succeeded.
C5_BulkRunsToCompletion ==
    /\ last = "csv" =>
          Len(calls) = Len(csv_df.rows) /\ msg = Success("Created", Cardinality(Succeeded))
    /\ last = "delete" =>
          Len(calls) = Len(Flagged(edited)) /\ msg = Success("Deleted", Cardinality(Succeeded))
    /\ last = "save" =>
          /\ \A rid \in Common(Base, edited) :
                Differs(Loc(Base, rid), Loc(edited, rid)) => UpdatesOf(rid) # {}
          /\ msg = Success("Saved", Cardinality(Succeeded))

\* C6: no update call carries `id`, `createdAt` or `_delete` in its body, in
\* the normal view and in the raw view.
C6_UpdatePayloadHasNoReservedKey ==
    \A i \in Calls :
        calls[i].op = "update" => DOMAIN calls[i].payload \cap {"id", "createdAt", "_delete"} = {}

\* a save in the normal view that sent an update for a renamed, flagged row
C6_Witness ==
    /\ last = "save"
    /\ ~show_raw
    /\ {"id", "createdAt", "_delete", "name"} \subseteq edited.cols
    /\ \E i \in Calls :
          /\ calls[i].op = "update"
          /\ calls[i].ok
          /\ "name" \in DOMAIN calls[i].payload
          /\ \E r \in 1..Len(edited.rows) :
                Str(edited.rows[r]["id"]) = calls[i].id /\ edited.rows[r]["_delete"]

\* C7: when a named field (name, note) is filled in, the body Add sends
\* holds the filled-in fields and no field whose value was left blank.
C7_AddSendsNoBlankField ==
    (last = "add" /\ (Strip(form.name) # "" \/ Strip(form.note) # "")) =>
        /\ Len(calls) = 1
        /\ Strip(form.name) # "" <=> "name" \in DOMAIN calls[1].payload
        /\ Strip(form.note) # "" <=> "note" \in DOMAIN calls[1].payload
        /\ \A k \in DOMAIN calls[1].payload : Strip(calls[1].payload[k]) # ""

\* C8: update and delete calls only name ids of records of the fetched table;
\* a row without an id causes no call.
C8_CallsOnlyFetchedIds ==
    \A i \in Calls : calls[i].op \in {"update", "delete"} => calls[i].id \in FrameIds(df)

\* C9: the body of every create of a CSV import holds the file's columns
\* except `id` and `createdAt`, a missing cell as the empty string.
C9_CsvDropsReservedColumns ==
    last = "csv" =>
        \A i \in Calls :
            /\ DOMAIN calls[i].payload = csv_df.cols \ {"id", "createdAt"}
            /\ \A c \in DOMAIN calls[i].payload : calls[i].payload[c] # NA

\* C10: a bulk operation issues its calls in the order of the rows.
C10_CallsInRowOrder ==
    /\ last = "save" =>
          \A i, j \in Calls : i < j => RowOf(calls[i].id) < RowOf(calls[j].id)
    /\ last = "delete" =>
          \A i \in Calls : calls[i].id = Selected(edited)[i]
    /\ last = "csv" =>
          \A i \in Calls : calls[i].payload = CsvRowDict(csv_df.rows[i])

====
